---- MODULE Spec2Model ----
(***************************************************************************)
(* Student dropout prediction: the feature-normalisation and risk-scoring  *)
(* pipeline of app.py / ml_model.py (row mapper, scorer, batch import,     *)
(* single-record prediction with counselor alerts) as a state machine.     *)
(*                                                                         *)
(* Numbers: a Python number is a record [k, v]; k = "fin" for a finite     *)
(* value whose magnitude is v tenths (18 is 180, 19.7 is 197), k = "inf"   *)
(* for float('inf'), k = "nan" for float('nan').  A probability is an integer number of 1/10000.       *)
(***************************************************************************)
EXTENDS Integers, Sequences, FiniteSets, TLC

VARIABLES
    users,          \* committed rows of table user
    students,       \* committed rows of table student
    notifications,  \* committed rows of table notification (in creation order)
    clf,            \* the loaded classifier, as far as it has been asked
    imp,            \* per import request: position and locals of import_csv
    prd,            \* position and locals of the predict_dropout request
    seen,           \* what the get_analytics call in progress read
    nreq,           \* the number of requests received so far
    sc,             \* scorer harness: a vector, a probability and what predict gave
    rm,             \* row-mapper harness: a row and the vector built from it
    am,             \* request-mapper harness: a JSON body and the vector built from it
    boot            \* start-up: the artifacts on disk and the predictor constructed

vars == <<users, students, notifications, clf, imp, prd, seen, nreq, sc, rm, am, boot>>

----------------------------------------------------------------------------
(* Python numbers *)

Fin(n) == [k |-> "fin", v |-> n]

PosInf == [k |-> "inf", v |-> 0]

\* float('nan')
NaNNum == [k |-> "nan", v |-> 0]

FromInt(i) == Fin(10 * i)

IsFinite(x) == x.k = "fin"

----------------------------------------------------------------------------
(* FeatureSchema *)

\* ml_model.py: DropoutPredictor.feature_names
feature_names ==
    << "Marital status", "Application mode", "Application order", "Course",
       "Daytime/evening attendance", "Previous qualification", "Nacionality",
       "Mother's qualification", "Father's qualification", "Mother's occupation",
       "Father's occupation", "Displaced", "Educational special needs", "Debtor",
       "Tuition fees up to date", "Gender", "Scholarship holder", "Age at enrollment",
       "International", "Curricular units 1st sem (credited)",
       "Curricular units 1st sem (enrolled)", "Curricular units 1st sem (evaluations)",
       "Curricular units 1st sem (approved)", "Curricular units 1st sem (grade)",
       "Curricular units 1st sem (without evaluations)", "Curricular units 2nd sem (credited)",
       "Curricular units 2nd sem (enrolled)", "Curricular units 2nd sem (evaluations)",
       "Curricular units 2nd sem (approved)", "Curricular units 2nd sem (grade)",
       "Curricular units 2nd sem (without evaluations)", "Unemployment rate",
       "Inflation rate", "GDP" >>

\* app.py: the keys of the dict `defaults` of _row_to_features, in insertion order
defaults_keys ==
    << "Marital status", "Application mode", "Application order", "Course",
       "Daytime/evening attendance", "Previous qualification", "Nacionality",
       "Mother's qualification", "Father's qualification", "Mother's occupation",
       "Father's occupation", "Displaced", "Educational special needs", "Debtor",
       "Tuition fees up to date", "Gender", "Scholarship holder", "Age at enrollment",
       "International", "Curricular units 1st sem (credited)",
       "Curricular units 1st sem (enrolled)", "Curricular units 1st sem (evaluations)",
       "Curricular units 1st sem (approved)", "Curricular units 1st sem (grade)",
       "Curricular units 1st sem (without evaluations)", "Curricular units 2nd sem (credited)",
       "Curricular units 2nd sem (enrolled)", "Curricular units 2nd sem (evaluations)",
       "Curricular units 2nd sem (approved)", "Curricular units 2nd sem (grade)",
       "Curricular units 2nd sem (without evaluations)", "Unemployment rate",
       "Inflation rate", "GDP" >>

\* app.py: the values of the dict `defaults` of _row_to_features
defaults(feature_name) ==
    CASE feature_name = "Tuition fees up to date" -> 1
      [] feature_name = "Age at enrollment" -> 18
      [] OTHER -> 0

\* generate_dataset.py: the keys of `record`, which become the dataset's columns
dataset_columns ==
    << "Marital status", "Application mode", "Application order", "Course",
       "Daytime/evening attendance", "Previous qualification", "Nacionality",
       "Mother's qualification", "Father's qualification", "Mother's occupation",
       "Father's occupation", "Displaced", "Educational special needs", "Debtor",
       "Tuition fees up to date", "Gender", "Scholarship holder", "Age at enrollment",
       "International", "Curricular units 1st sem (credited)",
       "Curricular units 1st sem (enrolled)", "Curricular units 1st sem (evaluations)",
       "Curricular units 1st sem (approved)", "Curricular units 1st sem (grade)",
       "Curricular units 1st sem (without evaluations)", "Curricular units 2nd sem (credited)",
       "Curricular units 2nd sem (enrolled)", "Curricular units 2nd sem (evaluations)",
       "Curricular units 2nd sem (approved)", "Curricular units 2nd sem (grade)",
       "Curricular units 2nd sem (without evaluations)", "Unemployment rate",
       "Inflation rate", "GDP", "Target" >>

\* train_model.py: feature_columns = [col for col in df.columns if col != 'Target']
feature_columns == SelectSeq(dataset_columns, LAMBDA col : col # "Target")

\* the number of columns the scaler was fitted on (scaler.fit_transform(X_train))
n_features_in_ == Len(feature_columns)

----------------------------------------------------------------------------
(* Cells of a parsed file.  pd.read_csv(dtype=str) gives every cell as text,
   or as NaN for an empty cell or a NaN marker; after the headers are
   stripped, two columns with the same label make row[label] a Series. *)

NaNCell == [kind |-> "nan", text |-> ""]

SeriesCell == [kind |-> "series", text |-> ""]

Str(s) == [kind |-> "str", text |-> s]

\* pd.isna(val) or val is None; bool() of a Series raises ValueError
pd_isna(cell) ==
    CASE cell.kind = "nan" -> [exc |-> "none", val |-> TRUE]
      [] cell.kind = "series" -> [exc |-> "ValueError", val |-> FALSE]
      [] OTHER -> [exc |-> "none", val |-> FALSE]

\* Python's float(str) on the texts the bounded inputs use
float(s) ==
    CASE s = "0" -> [exc |-> "none", val |-> Fin(0)]
      [] s = "1" -> [exc |-> "none", val |-> Fin(10)]
      [] s = "7" -> [exc |-> "none", val |-> Fin(70)]
      [] s = "19.7" -> [exc |-> "none", val |-> Fin(197)]
      [] s = "-0.5" -> [exc |-> "none", val |-> Fin(-5)]
      [] s = "500" -> [exc |-> "none", val |-> Fin(5000)]
      [] s = "inf" -> [exc |-> "none", val |-> PosInf]
      [] s = "NAN" -> [exc |-> "none", val |-> NaNNum]
      [] OTHER -> [exc |-> "ValueError", val |-> Fin(0)]

\* A row of df.iterrows(): its index label and its cells by column label
Row(name, cells) == [name |-> name, cells |-> cells]

\* One pass of the loop of _row_to_features: the entry appended for feature_name
feature_entry(row, feature_name) ==
    LET default_val == FromInt(defaults(feature_name))
    IN  IF feature_name \notin DOMAIN row.cells
        THEN default_val                       \* float(default_val)
        ELSE LET val == row.cells[feature_name]
                 na == pd_isna(val)
             IN  IF na.exc # "none" THEN default_val          \* except ValueError
                 ELSE IF na.val THEN default_val
                 ELSE LET f == float(val.text)
                      IN  IF f.exc # "none" THEN default_val  \* except ValueError
                          ELSE f.val

\* a row mapper that leaves the last schema entry out
_row_to_features_short(row) ==
    [i \in 1..(Len(defaults_keys) - 1) |-> feature_entry(row, defaults_keys[i])]

_row_to_features(row) ==
    [i \in 1..Len(defaults_keys) |-> feature_entry(row, defaults_keys[i])]

----------------------------------------------------------------------------
(* Scorer: DropoutPredictor.predict *)

HighThreshold == 7000

MediumThreshold == 4000

Probabilities == 0..10000

\* the thresholds taken as exclusive lower bounds
risk_category_exclusive(dropout_prob) ==
    IF dropout_prob > HighThreshold THEN "High"
    ELSE IF dropout_prob > MediumThreshold THEN "Medium"
    ELSE "Low"

risk_category_of(dropout_prob) ==
    IF dropout_prob >= HighThreshold THEN "High"
    ELSE IF dropout_prob >= MediumThreshold THEN "Medium"
    ELSE "Low"

\* scaler.transform rejects a vector holding an infinity or a NaN (ValueError)
AllFinite(features) == \A i \in 1..Len(features) : IsFinite(features[i])

\* a scorer that takes a vector of any length
predict_any_length(features, dropout_prob) ==
    IF ~AllFinite(features)
    THEN [exc |-> "ValueError", risk_score |-> 0, risk_category |-> "none"]
    ELSE [exc |-> "none", risk_score |-> dropout_prob,
          risk_category |-> risk_category_of(dropout_prob)]

\* predict(features) given the probability the classifier returns for them;
\* scaler.transform raises ValueError on a vector of another length than fitted
predict(features, dropout_prob) ==
    IF Len(features) # n_features_in_ \/ ~AllFinite(features)
    THEN [exc |-> "ValueError", risk_score |-> 0, risk_category |-> "none"]
    ELSE [exc |-> "none", risk_score |-> dropout_prob,
          risk_category |-> risk_category_of(dropout_prob)]

----------------------------------------------------------------------------
(* Record mapping: _csv_to_student_fields *)

\* One entry per line of the returned dict after 'name': the Student field, the
\* header read with g(header, gd), the conversion and the conversion's default
student_columns ==
    <<
       [key |-> "marital_status", header |-> "Marital status", conv |-> "int", gd |-> 0, cd |-> 0],
       [key |-> "application_mode", header |-> "Application mode", conv |-> "int", gd |-> 0, cd |-> 0],
       [key |-> "application_order", header |-> "Application order", conv |-> "int", gd |-> 0, cd |-> 0],
       [key |-> "course", header |-> "Course", conv |-> "int", gd |-> 0, cd |-> 0],
       [key |-> "daytime_evening_attendance", header |-> "Daytime/evening attendance", conv |-> "int", gd |-> 0, cd |-> 0],
       [key |-> "previous_qualification", header |-> "Previous qualification", conv |-> "int", gd |-> 0, cd |-> 0],
       [key |-> "nationality", header |-> "Nacionality", conv |-> "int", gd |-> 0, cd |-> 0],
       [key |-> "mothers_qualification", header |-> "Mother's qualification", conv |-> "int", gd |-> 0, cd |-> 0],
       [key |-> "fathers_qualification", header |-> "Father's qualification", conv |-> "int", gd |-> 0, cd |-> 0],
       [key |-> "mothers_occupation", header |-> "Mother's occupation", conv |-> "int", gd |-> 0, cd |-> 0],
       [key |-> "fathers_occupation", header |-> "Father's occupation", conv |-> "int", gd |-> 0, cd |-> 0],
       [key |-> "displaced", header |-> "Displaced", conv |-> "int", gd |-> 0, cd |-> 0],
       [key |-> "educational_special_needs", header |-> "Educational special needs", conv |-> "int", gd |-> 0, cd |-> 0],
       [key |-> "debtor", header |-> "Debtor", conv |-> "int", gd |-> 0, cd |-> 0],
       [key |-> "tuition_fees_up_to_date", header |-> "Tuition fees up to date", conv |-> "int", gd |-> 1, cd |-> 0],
       [key |-> "gender", header |-> "Gender", conv |-> "int", gd |-> 0, cd |-> 0],
       [key |-> "scholarship_holder", header |-> "Scholarship holder", conv |-> "int", gd |-> 0, cd |-> 0],
       [key |-> "age_at_enrollment", header |-> "Age at enrollment", conv |-> "int", gd |-> 18, cd |-> 18],
       [key |-> "international", header |-> "International", conv |-> "int", gd |-> 0, cd |-> 0],
       [key |-> "curricular_units_1st_sem_credited", header |-> "Curricular units 1st sem (credited)", conv |-> "float", gd |-> 0, cd |-> 0],
       [key |-> "curricular_units_1st_sem_enrolled", header |-> "Curricular units 1st sem (enrolled)", conv |-> "float", gd |-> 0, cd |-> 0],
       [key |-> "curricular_units_1st_sem_evaluations", header |-> "Curricular units 1st sem (evaluations)", conv |-> "float", gd |-> 0, cd |-> 0],
       [key |-> "curricular_units_1st_sem_approved", header |-> "Curricular units 1st sem (approved)", conv |-> "float", gd |-> 0, cd |-> 0],
       [key |-> "curricular_units_1st_sem_grade", header |-> "Curricular units 1st sem (grade)", conv |-> "float", gd |-> 0, cd |-> 0],
       [key |-> "curricular_units_1st_sem_without_evaluations", header |-> "Curricular units 1st sem (without evaluations)", conv |-> "float", gd |-> 0, cd |-> 0],
       [key |-> "curricular_units_2nd_sem_credited", header |-> "Curricular units 2nd sem (credited)", conv |-> "float", gd |-> 0, cd |-> 0],
       [key |-> "curricular_units_2nd_sem_enrolled", header |-> "Curricular units 2nd sem (enrolled)", conv |-> "float", gd |-> 0, cd |-> 0],
       [key |-> "curricular_units_2nd_sem_evaluations", header |-> "Curricular units 2nd sem (evaluations)", conv |-> "float", gd |-> 0, cd |-> 0],
       [key |-> "curricular_units_2nd_sem_approved", header |-> "Curricular units 2nd sem (approved)", conv |-> "float", gd |-> 0, cd |-> 0],
       [key |-> "curricular_units_2nd_sem_grade", header |-> "Curricular units 2nd sem (grade)", conv |-> "float", gd |-> 0, cd |-> 0],
       [key |-> "curricular_units_2nd_sem_without_evaluations", header |-> "Curricular units 2nd sem (without evaluations)", conv |-> "float", gd |-> 0, cd |-> 0],
       [key |-> "unemployment_rate", header |-> "Unemployment rate", conv |-> "float", gd |-> 0, cd |-> 0],
       [key |-> "inflation_rate", header |-> "Inflation rate", conv |-> "float", gd |-> 0, cd |-> 0],
       [key |-> "gdp", header |-> "GDP", conv |-> "float", gd |-> 0, cd |-> 0]
    >>

\* int(x) of a Python float: truncation toward zero
trunc(n) == IF n >= 0 THEN (n \div 10) * 10 ELSE 0 - (((0 - n) \div 10) * 10)

\* g = lambda k, d=0: row.get(k, d)
PyNum(d) == [kind |-> "num", text |-> "", num |-> FromInt(d)]

\* a lookup of the defaulted value that forgets the default passed
g_no_default(row, k, d) == IF k \in DOMAIN row.cells THEN row.cells[k] ELSE PyNum(0)

g(row, k, d) == IF k \in DOMAIN row.cells THEN row.cells[k] ELSE PyNum(d)

\* float(val) of a cell or of a Python number
float_of(val) == IF val.kind = "num" THEN [exc |-> "none", val |-> val.num] ELSE float(val.text)

to_int(val, default) ==
    LET na == IF val.kind = "num" THEN [exc |-> "none", val |-> FALSE] ELSE pd_isna(val)
    IN  IF na.exc # "none" THEN FromInt(default)
        ELSE IF na.val THEN FromInt(default)
        ELSE LET f == float_of(val)
             IN  IF f.exc # "none" THEN FromInt(default)
                 ELSE IF ~IsFinite(f.val) THEN FromInt(default)   \* int(inf), int(nan) raise
                 ELSE Fin(trunc(f.val.v))

to_float(val, default) ==
    LET na == IF val.kind = "num" THEN [exc |-> "none", val |-> FALSE] ELSE pd_isna(val)
    IN  IF na.exc # "none" THEN FromInt(default)
        ELSE IF na.val THEN FromInt(default)
        ELSE LET f == float_of(val)
             IN  IF f.exc # "none" THEN FromInt(default) ELSE f.val

\* the number written without the zero padding
pad_none(n) == ToString(n)

\* f"{n:05d}"
pad5(n) ==
    IF n < 10 THEN "0000" \o ToString(n)
    ELSE IF n < 100 THEN "000" \o ToString(n)
    ELSE IF n < 1000 THEN "00" \o ToString(n)
    ELSE IF n < 10000 THEN "0" \o ToString(n)
    ELSE ToString(n)

\* str(row.get(label, placeholder))
str_of(row, label, placeholder) ==
    IF label \notin DOMAIN row.cells THEN placeholder
    ELSE LET c == row.cells[label]
         IN  CASE c.kind = "nan" -> "nan"
               [] c.kind = "series" -> "Series:" \o ToString(row.name)
               [] OTHER -> c.text

student_attr(row, col) ==
    IF col.conv = "int" THEN to_int(g(row, col.header, col.gd), col.cd)
    ELSE to_float(g(row, col.header, col.gd), col.cd)

_csv_to_student_fields(row) ==
    [student_id |-> str_of(row, "student_id", "CSV" \o pad5(row.name + 1)),
     name |-> str_of(row, "name", "Student " \o ToString(row.name + 1)),
     attrs |-> [i \in 1..Len(student_columns) |-> student_attr(row, student_columns[i])]]

----------------------------------------------------------------------------
(* /api/predict: the feature list built from the request's JSON *)

api_keys ==
    <<
       "marital_status", "application_mode", "application_order",
       "course", "daytime_evening_attendance", "previous_qualification",
       "nationality", "mothers_qualification", "fathers_qualification",
       "mothers_occupation", "fathers_occupation", "displaced",
       "educational_special_needs", "debtor", "tuition_fees_up_to_date",
       "gender", "scholarship_holder", "age_at_enrollment",
       "international", "curricular_units_1st_sem_credited", "curricular_units_1st_sem_enrolled",
       "curricular_units_1st_sem_evaluations", "curricular_units_1st_sem_approved", "curricular_units_1st_sem_grade",
       "curricular_units_1st_sem_without_evaluations", "curricular_units_2nd_sem_credited", "curricular_units_2nd_sem_enrolled",
       "curricular_units_2nd_sem_evaluations", "curricular_units_2nd_sem_approved", "curricular_units_2nd_sem_grade",
       "curricular_units_2nd_sem_without_evaluations", "unemployment_rate", "inflation_rate",
       "gdp"
    >>

\* a request mapper that defaults every absent key to 0
api_default_zero(key) == 0

api_default(key) ==
    CASE key = "tuition_fees_up_to_date" -> 1
      [] key = "age_at_enrollment" -> 18
      [] OTHER -> 0

\* a request mapper that reads the debtor and tuition keys in each other's place
api_features_swapped(data) ==
    [i \in 1..Len(api_keys) |->
        LET key == api_keys[IF i = 14 THEN 15 ELSE IF i = 15 THEN 14 ELSE i]
        IN  IF key \in DOMAIN data THEN data[key] ELSE FromInt(api_default(key))]

\* data.get(key, default) for each key, in the order of the list
api_features(data) ==
    [i \in 1..Len(api_keys) |->
        IF api_keys[i] \in DOMAIN data THEN data[api_keys[i]]
        ELSE FromInt(api_default(api_keys[i]))]

----------------------------------------------------------------------------
(* /api/predict/quick: the vector built from the homepage form *)

\* One entry per slot of the list `features` of quick_predict: a constant d, or
\* the form key read with data.get(key, d) and converted with int() or float()
quick_slots ==
    <<
       [key |-> "", conv |-> "", d |-> 0],
       [key |-> "", conv |-> "", d |-> 1],
       [key |-> "", conv |-> "", d |-> 1],
       [key |-> "", conv |-> "", d |-> 1],
       [key |-> "", conv |-> "", d |-> 0],
       [key |-> "", conv |-> "", d |-> 1],
       [key |-> "", conv |-> "", d |-> 1],
       [key |-> "", conv |-> "", d |-> 1],
       [key |-> "", conv |-> "", d |-> 1],
       [key |-> "", conv |-> "", d |-> 1],
       [key |-> "", conv |-> "", d |-> 1],
       [key |-> "", conv |-> "", d |-> 0],
       [key |-> "", conv |-> "", d |-> 0],
       [key |-> "", conv |-> "", d |-> 0],
       [key |-> "tuition_fees_up_to_date", conv |-> "int", d |-> 1],
       [key |-> "gender", conv |-> "int", d |-> 0],
       [key |-> "scholarship_holder", conv |-> "int", d |-> 0],
       [key |-> "age_at_enrollment", conv |-> "float", d |-> 20],
       [key |-> "", conv |-> "", d |-> 0],
       [key |-> "", conv |-> "", d |-> 0],
       [key |-> "", conv |-> "", d |-> 6],
       [key |-> "", conv |-> "", d |-> 6],
       [key |-> "curricular_units_1st_sem_approved", conv |-> "int", d |-> 5],
       [key |-> "curricular_units_1st_sem_grade", conv |-> "float", d |-> 12],
       [key |-> "", conv |-> "", d |-> 0],
       [key |-> "", conv |-> "", d |-> 0],
       [key |-> "", conv |-> "", d |-> 6],
       [key |-> "", conv |-> "", d |-> 6],
       [key |-> "curricular_units_2nd_sem_approved", conv |-> "int", d |-> 5],
       [key |-> "curricular_units_2nd_sem_grade", conv |-> "float", d |-> 12],
       [key |-> "", conv |-> "", d |-> 0],
       [key |-> "", conv |-> "", d |-> 8],
       [key |-> "", conv |-> "", d |-> 2],
       [key |-> "", conv |-> "", d |-> 2]
    >>

quick_features(data) ==
    [i \in 1..Len(quick_slots) |->
        LET slot == quick_slots[i]
        IN  IF slot.key = "" THEN FromInt(slot.d)
            ELSE LET val == IF slot.key \in DOMAIN data THEN data[slot.key]
                            ELSE FromInt(slot.d)
                 IN  IF slot.conv = "int" THEN Fin(trunc(val.v)) ELSE val]

----------------------------------------------------------------------------
(* Bounds of the model and the inputs drawn within them *)

MaxRows == 2

MaxRequests == 3

MaxCounselors == 2

MaxNotifications == 4

\* the longest file of the specification of the preview: one row past the preview
MaxPreviewRows == 51

ImportProcs == {1, 2}

\* the probabilities the classifier is let to return in the system specifications
ProbLevels == {HighThreshold - 1, HighThreshold}

\* probabilities on both sides of both thresholds
AllLevels == {MediumThreshold - 1, MediumThreshold, HighThreshold - 1, HighThreshold}

SidCells == {NaNCell, Str("S1")}

DebtorCells == {NaNCell, Str("1"), Str("inf")}

CellsFor(label) == IF label = "student_id" THEN SidCells ELSE DebtorCells

\* the files have no optional or feature column, or one of them
ColumnSets == {{}, {"student_id"}, {"Debtor"}}

\* the header a complete file is written without
MissingChoices == {"Debtor", "Tuition fees up to date", "Age at enrollment", "GDP"}

\* the headers as the file spells them: one of them with surrounding whitespace
raw_header(label) == IF label = "Course" THEN " Course " ELSE label

RowsOver(cols) ==
    {f \in [cols -> SidCells \cup DebtorCells] : \A c \in cols : f[c] \in CellsFor(c)}

\* a file with every feature header but one, and the same text in every cell
FullFile(missing, n) ==
    LET cols == {raw_header(feature_names[i]) :
                    i \in {j \in 1..Len(feature_names) : feature_names[j] # missing}}
    IN  [columns |-> cols, rows |-> [i \in 1..n |-> [c \in cols |-> Str("7")]]]

FullFiles == {FullFile(missing, n) : missing \in MissingChoices, n \in 1..MaxRows}

\* a parsed file: the headers as read, and one cell mapping per data row
Files ==
    UNION {[columns : {cols}, rows : UNION {[1..n -> RowsOver(cols)] : n \in 0..MaxRows}]
           : cols \in ColumnSets}

\* the files of the specifications with concurrent requests
ConcFiles == {f \in Files : f.columns = {"student_id"} /\ Len(f.rows) <= 1}

\* a file of n rows with the Debtor header alone
LongFile(n) ==
    [columns |-> {"Debtor"}, rows |-> [i \in 1..n |-> [c \in {"Debtor"} |-> Str("1")]]]

\* files around the length of the preview, and complete files of two rows
PreviewFiles ==
    {LongFile(n) : n \in {0, 1, MaxPreviewRows - 1, MaxPreviewRows}}
    \cup {FullFile("", MaxRows), FullFile("GDP", MaxRows)}

NoFile == [columns |-> {}, rows |-> << >>]

\* request bodies of /api/predict: the feature keys given, and the student_id given
ApiData == {<< >>, [debtor |-> FromInt(1)]}

ApiStudentIds == {"", "S1", "CSV00001"}

----------------------------------------------------------------------------
(* The store *)

Max(S) == IF S = {} THEN 0 ELSE CHOOSE x \in S : \A y \in S : y <= x

Min2(a, b) == IF a <= b THEN a ELSE b

Range(f) == {f[i] : i \in DOMAIN f}

\* a deletion that leaves the table as it was
DeleteNothing(tbl) == tbl

\* db.session.execute(db.text("DELETE FROM student")) / Student.query.delete()
DeleteFromStudent(tbl) == {}

\* a clearing that takes the user table with it
ClearAllTables(tbl, usr) == [student |-> {}, user |-> {}]

\* lines 667-676: the statement names the student table alone
ClearStudentTable(tbl, usr) == [student |-> DeleteFromStudent(tbl), user |-> usr]

\* User.query.filter_by(role='counselor').all(), in primary-key order
RECURSIVE SortedIds(_)
SortedIds(S) ==
    IF S = {} THEN << >>
    ELSE LET m == CHOOSE x \in S : \A y \in S : x <= y
         IN  <<m>> \o SortedIds(S \ {m})

counselors_of(usr) == SortedIds({u.id : u \in {x \in usr : x.role = "counselor"}})

\* str.strip() of a header, on the headers the bounded files use
strip(header) ==
    CASE header = " Course " -> "Course"
      [] header = "Debtor " -> "Debtor"
      [] OTHER -> header

\* df.columns = df.columns.str.strip()
df_columns(file) == {strip(h) : h \in file.columns}

\* the rows of df.iterrows(): a label two headers share gives a Series
df_rows(file) ==
    [i \in 1..Len(file.rows) |->
        Row(i - 1,
            [c \in df_columns(file) |->
                LET hs == {h \in file.columns : strip(h) = c}
                IN  IF Cardinality(hs) = 1
                    THEN file.rows[i][CHOOSE h \in hs : TRUE]
                    ELSE SeriesCell])]

\* missing_columns of import_csv
missing_columns_of(file) ==
    SelectSeq(feature_names, LAMBDA col : col \notin df_columns(file))

\* features = _row_to_features(row), for each row of the loop of import_csv
row_features(rows) == [i \in 1..Len(rows) |-> _row_to_features(rows[i])]

\* the rows the loop of import_csv scores before predict raises, if it does
RECURSIVE ScoredPrefix(_, _)
ScoredPrefix(feats, i) ==
    IF i > Len(feats) THEN Len(feats)
    ELSE IF ~AllFinite(feats[i]) THEN i - 1
    ELSE ScoredPrefix(feats, i + 1)

\* one Student row of the loop of import_csv: Student(**fields)
new_student(row, r, pk, now) ==
    LET fields == _csv_to_student_fields(row)
    IN  [id |-> pk,
         student_id |-> fields.student_id,
         name |-> fields.name,
         attrs |-> fields.attrs,
         dropout_risk_score |-> r.risk_score,
         risk_category |-> r.risk_category,
         created_at |-> now]

\* the Student rows the loop of import_csv adds to the session; cl is the classifier
new_students(rows, feats, cl, base, now) ==
    [i \in 1..Len(rows) |->
        new_student(rows[i], predict(feats[i], cl[feats[i]]), base + i, now)]

\* a list of results in the reverse of the file's order
results_reversed(news) ==
    [i \in 1..Len(news) |->
        [student_id |-> news[Len(news) + 1 - i].student_id,
         name |-> news[Len(news) + 1 - i].name,
         risk_score |-> news[Len(news) + 1 - i].dropout_risk_score,
         risk_category |-> news[Len(news) + 1 - i].risk_category]]

\* the list `results` of import_csv, which repeats what the rows were given
results_of(news) ==
    [i \in 1..Len(news) |->
        [student_id |-> news[i].student_id,
         name |-> news[i].name,
         risk_score |-> news[i].dropout_risk_score,
         risk_category |-> news[i].risk_category]]

\* Student.student_id is unique: the flush of the commit is refused otherwise
unique_ok(tbl, news) ==
    /\ \A i, j \in 1..Len(news) : i # j => news[i].student_id # news[j].student_id
    /\ \A i \in 1..Len(news) : \A s \in tbl : s.student_id # news[i].student_id

\* a commit that, refused, keeps the rows flushed before the refusal
commit_students_partial(tbl, news, rejected) ==
    IF rejected \/ ~unique_ok(tbl, news)
    THEN tbl \cup {news[i] : i \in 1..Min2(1, Len(news))}
    ELSE tbl \cup Range(news)

\* db.session.commit() of the added Student rows: all of them or, refused, none
commit_students(tbl, news, rejected) ==
    IF rejected \/ ~unique_ok(tbl, news) THEN tbl ELSE tbl \cup Range(news)

----------------------------------------------------------------------------
(* State after construction *)

\* the record mapper's result before it is called
NoFields == [student_id |-> "", name |-> "", attrs |-> << >>]

ImpIdle ==
    [pc |-> "idle", file |-> NoFile, replace_existing |-> FALSE,
     req |-> 0, prior |-> {}, notified |-> 0, existing_count |-> 0, cleared |-> 0,
     remaining_count |-> 0,
     outcome |-> "none", response |-> [status |-> 0, body |-> << >>]]

\* what is remembered of the /api/predict request answered last
NoPrev ==
    [req |-> 0, pk |-> 0, risk_category |-> "none", matched |-> FALSE,
     before |-> 0, outcome |-> "none"]

PrdIdle ==
    [pc |-> "idle", student_id |-> "", pk |-> 0, risk_score |-> 0, risk_category |-> "none",
     matched |-> FALSE, k |-> 0, before |-> 0, alerted |-> "",
     outcome |-> "none", response |-> [status |-> 0, body |-> << >>], prev |-> NoPrev]

SeenIdle == [pc |-> "idle", total_students |-> 0, high_risk |-> 0, replacing |-> FALSE]

\* the accounts: an admin, a student account and up to MaxCounselors counselors
UsersWith(k) ==
    {[id |-> 1, username |-> "admin", role |-> "admin"],
     [id |-> 2, username |-> "student1", role |-> "student"]}
    \cup {[id |-> 2 + i, username |-> "counselor" \o ToString(i), role |-> "counselor"]
          : i \in 1..k}

\* the harnesses before a call
ScIdle ==
    [features |-> << >>, dropout_prob |-> 0, called |-> FALSE, exc |-> "none",
     risk_score |-> 0, risk_category |-> "none"]

RmIdle == [row |-> Row(0, << >>), features |-> << >>, fields |-> NoFields]

AmIdle == [path |-> "api", data |-> << >>, called |-> FALSE, features |-> << >>]

\* the application started with both artifacts loaded
Booted ==
    [pc |-> "serving", db_file |-> TRUE, model_pkl |-> TRUE, scaler_pkl |-> TRUE,
     model |-> "loaded", scaler |-> "loaded",
     entry |-> "app.py", had_db |-> TRUE, had_model |-> TRUE, had_users |-> {},
     init_db |-> "none"]

InitSystem ==
    /\ boot = Booted
    /\ users \in {UsersWith(k) : k \in 0..MaxCounselors}
    /\ students = {}
    /\ notifications = << >>
    /\ clf = << >>
    /\ imp = [p \in ImportProcs |-> ImpIdle]
    /\ prd = PrdIdle
    /\ seen = SeenIdle
    /\ nreq = 0

InitHarness ==
    /\ sc = ScIdle
    /\ rm = RmIdle
    /\ am = AmIdle

Init == InitSystem /\ InitHarness

AllIdle == prd.pc = "idle" /\ seen.pc = "idle" /\ \A p \in ImportProcs : imp[p].pc = "idle"

----------------------------------------------------------------------------
(* import_csv, in the steps between which the store can be read or written *)

ErrorBody(message) == [success |-> FALSE, message |-> message]

\* a rollback that empties the table
rollback_truncates(tbl) == {}

\* line 746: db.session.rollback() drops what the session holds uncommitted;
\* the committed table stays
rollback(tbl) == tbl

\* lines 629-637: the checks before the try block
ImportRefused(p, free) ==
    /\ imp[p].pc = "idle"
    /\ free
    /\ \E u \in users, upload \in {"ok", "no_file", "not_csv"} :
          \/ /\ u.role \notin {"counselor", "admin"}
             /\ imp' = [imp EXCEPT ![p] =
                    [ImpIdle EXCEPT !.pc = "done", !.outcome = "refused",
                        !.response = [status |-> 403, body |-> ErrorBody("Unauthorized")]]]
          \/ /\ u.role \in {"counselor", "admin"}
             /\ upload = "no_file"
             /\ imp' = [imp EXCEPT ![p] =
                    [ImpIdle EXCEPT !.pc = "done", !.outcome = "refused",
                        !.response = [status |-> 400, body |-> ErrorBody("No file uploaded")]]]
          \/ /\ u.role \in {"counselor", "admin"}
             /\ upload = "not_csv"
             /\ imp' = [imp EXCEPT ![p] =
                    [ImpIdle EXCEPT !.pc = "done", !.outcome = "refused",
                        !.response = [status |-> 400, body |-> ErrorBody("Please upload a .csv file")]]]
    /\ nreq < MaxRequests
    /\ nreq' = nreq + 1
    /\ UNCHANGED <<users, students, notifications, clf, prd, seen, sc, rm, am, boot>>

\* lines 640-648, 745-747: pd.read_csv raises on a stream that is not tabular
ImportUnparsable(p, free) ==
    /\ imp[p].pc = "idle"
    /\ free
    /\ \E u \in users : u.role \in {"counselor", "admin"}
    /\ imp' = [imp EXCEPT ![p] =
           [ImpIdle EXCEPT !.pc = "done", !.outcome = "parse_error",
               !.response = [status |-> 500, body |-> ErrorBody("ParserError")]]]
    /\ students' = rollback(students)
    /\ nreq < MaxRequests
    /\ nreq' = nreq + 1
    /\ UNCHANGED <<users, notifications, clf, prd, seen, sc, rm, am, boot>>

\* lines 640-664: the file is parsed and the existing students are counted
ImportStart(p, free, files) ==
    /\ imp[p].pc = "idle"
    /\ free
    /\ \E u \in users : u.role \in {"counselor", "admin"}
    /\ \E file \in files, replace_existing \in BOOLEAN :
          imp' = [imp EXCEPT ![p] =
              [ImpIdle EXCEPT !.pc = "counted", !.file = file,
                  !.replace_existing = replace_existing,
                  !.req = nreq + 1,
                  !.prior = students,
                  !.notified = Len(notifications),
                  !.existing_count = Cardinality(students)]]
    /\ nreq < MaxRequests
    /\ nreq' = nreq + 1
    /\ UNCHANGED <<users, students, notifications, clf, prd, seen, sc, rm, am, boot>>

\* lines 667-676, 745-747: the DELETE and its commit, with the ORM fallback
ImportDelete(p) ==
    /\ imp[p].pc = "counted"
    /\ \E store \in {"ok", "direct_fails", "both_fail"} :
          IF store = "both_fail"
          THEN /\ imp' = [imp EXCEPT ![p].pc = "done", ![p].outcome = "delete_failed",
                       ![p].response = [status |-> 500, body |-> ErrorBody("OperationalError")]]
               /\ UNCHANGED <<students, users>>
          ELSE \E db \in {ClearStudentTable(students, users)} :
                  /\ students' = db.student
                  /\ users' = db.user
                  /\ imp' = [imp EXCEPT ![p].pc = "deleted",
                                        ![p].cleared = Cardinality(students)]
    /\ UNCHANGED <<notifications, clf, prd, seen, nreq, sc, rm, am, boot>>

\* lines 678-686: the count after the deletion, which is only printed
ImportVerify(p) ==
    /\ imp[p].pc = "deleted"
    /\ imp' = [imp EXCEPT ![p].pc = "verified",
                          ![p].remaining_count = Cardinality(students)]
    /\ UNCHANGED <<users, students, notifications, clf, prd, seen, nreq, sc, rm, am, boot>>

\* the body of a successful import's response, lines 722-742
SummaryBody(p, file, results, total_students_after) ==
    LET base == [success |-> TRUE,
                 summary |-> [created |-> Len(results), updated |-> 0,
                              total |-> Len(results), replaced_existing |-> TRUE,
                              cleared_count |-> imp[p].existing_count,
                              total_in_db |-> total_students_after],
                 results |-> SubSeq(results, 1, Min2(50, Len(results)))]
    IN  IF missing_columns_of(file) # << >>
        THEN base @@ [warnings |-> [missing_columns |-> missing_columns_of(file)]]
        ELSE base

\* lines 688-747: the loop over the rows, the commit and the response
ImportRows(p, levels) ==
    /\ imp[p].pc = "verified"
    /\ \E rows \in {df_rows(imp[p].file)} :
       \E feats \in {row_features(rows)} :
       \E n \in {ScoredPrefix(feats, 1)} :
       \E ext \in [{feats[i] : i \in 1..n} \ DOMAIN clf -> levels], rejected \in BOOLEAN :
       \E cl \in {clf @@ ext} :
          /\ clf' = cl
          /\ IF n < Len(rows)
             THEN \* predict raised: except, rollback
                  /\ imp' = [imp EXCEPT ![p].pc = "done", ![p].outcome = "predict_raised",
                         ![p].response = [status |-> 500, body |-> ErrorBody("ValueError")]]
                  /\ UNCHANGED students
             ELSE \E news \in {new_students(rows, feats, cl, Max({s.id : s \in students}),
                                            imp[p].req)} :
                  \E after \in {commit_students(students, news, rejected)} :
                     /\ students' = after
                     /\ IF rejected
                        THEN imp' = [imp EXCEPT ![p].pc = "done",
                                ![p].outcome = "commit_rejected",
                                ![p].response =
                                    [status |-> 500, body |-> ErrorBody("OperationalError")]]
                        ELSE IF ~unique_ok(students, news)
                        THEN imp' = [imp EXCEPT ![p].pc = "done",
                                ![p].outcome = "integrity_error",
                                ![p].response =
                                    [status |-> 500, body |-> ErrorBody("IntegrityError")]]
                        ELSE imp' = [imp EXCEPT ![p].pc = "done",
                                ![p].outcome = "success",
                                ![p].response =
                                    [status |-> 200,
                                     body |-> SummaryBody(p, imp[p].file, results_of(news),
                                                          Cardinality(after))]]
    /\ UNCHANGED <<users, notifications, prd, seen, nreq, sc, rm, am, boot>>

----------------------------------------------------------------------------
(* predict_dropout, in its two commits *)

PredictFailure(message) == [status |-> 200, body |-> [success |-> FALSE, error |-> message]]

PredictSuccess(r) ==
    [status |-> 200,
     body |-> [success |-> TRUE, risk_score |-> r.risk_score,
               risk_category |-> r.risk_category]]

\* an update that writes the probability and leaves the category
update_score_alone(tbl, pk, r) ==
    {IF s.id = pk THEN [s EXCEPT !.dropout_risk_score = r.risk_score] ELSE s : s \in tbl}

\* lines 347-349: the assignments to the matched Student row
update_score(tbl, pk, r) ==
    {IF s.id = pk
     THEN [s EXCEPT !.dropout_risk_score = r.risk_score, !.risk_category = r.risk_category]
     ELSE s : s \in tbl}

\* lines 299-350, 365-373: the score, the lookup and the first commit
PredictStart(free, levels) ==
    /\ prd.pc = "idle"
    /\ free
    /\ Len(notifications) + Len(counselors_of(users)) <= MaxNotifications
    /\ \E data \in ApiData, student_id \in ApiStudentIds, rejected \in BOOLEAN :
       \E features \in {api_features(data)} :
       \E ext \in [{features} \ DOMAIN clf -> levels] :
       \E cl \in {clf @@ ext} :
       \E r \in {predict(features, cl[features])} :
       \E match \in {{s \in students : s.student_id = student_id}} :
       \E req \in {[PrdIdle EXCEPT !.student_id = student_id,
                       !.risk_score = r.risk_score,
                       !.risk_category = r.risk_category,
                       !.before = Len(notifications),
                       !.k = Len(counselors_of(users)),
                       !.prev = prd.prev]} :
          /\ clf' = cl
          /\ IF r.exc # "none"
             THEN /\ prd' = [req EXCEPT !.pc = "done", !.outcome = "predict_raised",
                                !.response = PredictFailure("ValueError")]
                  /\ UNCHANGED students
             ELSE IF student_id = "" \/ match = {}
             THEN /\ prd' = [req EXCEPT !.pc = "done", !.outcome = "success",
                                !.response = PredictSuccess(r)]
                  /\ UNCHANGED students
             ELSE \E student \in {CHOOSE s \in match : TRUE} :
                     IF rejected
                     THEN /\ prd' = [req EXCEPT !.pc = "done", !.outcome = "commit_rejected",
                                        !.matched = TRUE, !.pk = student.id,
                                        !.response = PredictFailure("OperationalError")]
                          /\ UNCHANGED students
                     ELSE /\ students' = update_score(students, student.id, r)
                          /\ prd' = [req EXCEPT !.matched = TRUE, !.pk = student.id,
                                        !.pc = IF r.risk_category = "High"
                                               THEN "alert" ELSE "done",
                                        !.outcome = IF r.risk_category = "High"
                                                    THEN "none" ELSE "success",
                                        !.response = IF r.risk_category = "High"
                                                     THEN PrdIdle.response
                                                     ELSE PredictSuccess(r)]
    /\ nreq < MaxRequests
    /\ nreq' = nreq + 1
    /\ UNCHANGED <<users, notifications, imp, seen, sc, rm, am, boot>>

\* a fan-out that stops after the first counselor
alerts_first_only(student, counselors, first_id) ==
    [i \in 1..Min2(1, Len(counselors)) |->
        [id |-> first_id + i - 1,
         student_id |-> student.id,
         counselor_id |-> counselors[i],
         student_name |-> student.name,
         student_identifier |-> student.student_id,
         notification_type |-> "high_risk_alert",
         is_read |-> FALSE]]

\* lines 356-362: one Notification per counselor, built from the refreshed Student
alerts_for(student, counselors, first_id) ==
    [i \in 1..Len(counselors) |->
        [id |-> first_id + i - 1,
         student_id |-> student.id,
         counselor_id |-> counselors[i],
         student_name |-> student.name,
         student_identifier |-> student.student_id,
         notification_type |-> "high_risk_alert",
         is_read |-> FALSE]]

\* an insertion that skips an alert the counselor already has for the student
add_unless_alerted(tbl, alerts) ==
    tbl \o SelectSeq(alerts, LAMBDA a :
               \A i \in 1..Len(tbl) :
                   tbl[i].student_id # a.student_id \/ tbl[i].counselor_id # a.counselor_id)

\* lines 362-363: db.session.add(notification) for each, and the commit
add_notifications(tbl, alerts) == tbl \o alerts

\* lines 352-373: the fan-out and the second commit
PredictAlert ==
    /\ prd.pc = "alert"
    /\ \E rejected \in BOOLEAN :
         LET counselors == counselors_of(users)
             row == {s \in students : s.id = prd.pk}
             r == [risk_score |-> prd.risk_score, risk_category |-> prd.risk_category]
         IN  IF counselors # << >> /\ row = {}
             THEN \* the expired Student no longer has a row: ObjectDeletedError
                  /\ prd' = [prd EXCEPT !.pc = "done", !.outcome = "alert_failed",
                                !.response = PredictFailure("ObjectDeletedError")]
                  /\ UNCHANGED notifications
             ELSE IF rejected
             THEN /\ prd' = [prd EXCEPT !.pc = "done", !.outcome = "alert_failed",
                                !.response = PredictFailure("OperationalError")]
                  /\ UNCHANGED notifications
             ELSE LET student == IF row = {} THEN [id |-> prd.pk, name |-> "", student_id |-> ""]
                                 ELSE CHOOSE s \in row : TRUE
                  IN  /\ notifications' = add_notifications(notifications,
                             alerts_for(student, counselors, Len(notifications) + 1))
                      /\ prd' = [prd EXCEPT !.pc = "done", !.outcome = "success",
                                    !.k = Len(counselors),
                                    !.alerted = student.student_id,
                                    !.response = PredictSuccess(r)]
    /\ UNCHANGED <<users, students, clf, imp, seen, nreq, sc, rm, am, boot>>

----------------------------------------------------------------------------
(* get_analytics: a reader of the student collection *)

\* an import stands between its deletion and its insertion of a non-empty batch
\* that replaces a non-empty collection
Replacing(p) ==
    /\ imp[p].pc \in {"deleted", "verified"}
    /\ imp[p].prior # {}
    /\ Len(imp[p].file.rows) > 0

GetAnalytics(free) ==
    /\ seen.pc = "idle"
    /\ free
    /\ \E u \in users : u.role \in {"counselor", "admin"}
    /\ seen' = [pc |-> "done", total_students |-> Cardinality(students),
                high_risk |-> Cardinality({s \in students : s.risk_category = "High"}),
                replacing |-> \E p \in ImportProcs : Replacing(p)]
    /\ nreq < MaxRequests
    /\ nreq' = nreq + 1
    /\ UNCHANGED <<users, students, notifications, clf, imp, prd, sc, rm, am, boot>>

----------------------------------------------------------------------------
(* The responses are sent and the requests end *)

ImportReturn(p) ==
    /\ imp[p].pc = "done"
    /\ imp' = [imp EXCEPT ![p] = ImpIdle]
    /\ UNCHANGED <<users, students, notifications, clf, prd, seen, nreq, sc, rm, am, boot>>

PredictReturn ==
    /\ prd.pc = "done"
    /\ prd' = [PrdIdle EXCEPT !.prev =
                   [req |-> nreq, pk |-> prd.pk, risk_category |-> prd.risk_category,
                    matched |-> prd.matched, before |-> prd.before,
                    outcome |-> prd.outcome]]
    /\ UNCHANGED <<users, students, notifications, clf, imp, seen, nreq, sc, rm, am, boot>>

AnalyticsReturn ==
    /\ seen.pc = "done"
    /\ seen' = SeenIdle
    /\ UNCHANGED <<users, students, notifications, clf, imp, prd, nreq, sc, rm, am, boot>>

----------------------------------------------------------------------------
(* Harnesses for the pure functions *)

\* the scorer applied to one probability
Score ==
    /\ ~sc.called
    /\ \E r \in {predict(sc.features, sc.dropout_prob)} :
          sc' = [sc EXCEPT !.called = TRUE, !.exc = r.exc,
                           !.risk_score = r.risk_score,
                           !.risk_category = r.risk_category]
    /\ UNCHANGED <<users, students, notifications, clf, imp, prd, seen, nreq, rm, am, boot>>

InitScore ==
    /\ InitSystem
    /\ sc \in {[ScIdle EXCEPT !.features = api_features(<< >>), !.dropout_prob = p]
                : p \in Probabilities}
    /\ rm = RmIdle
    /\ am = AmIdle

SpecScore == InitScore /\ [][Score]_vars

\* vectors of every length up to two more than the schema's
LengthVectors ==
    {[i \in 1..n |-> FromInt(v)] : n \in 0..(Len(feature_names) + 2), v \in {0, 1}}

InitScoreLen ==
    /\ InitSystem
    /\ sc \in {[ScIdle EXCEPT !.features = f, !.dropout_prob = p]
                : f \in LengthVectors, p \in ProbLevels}
    /\ rm = RmIdle
    /\ am = AmIdle

\* the scorer applied to vectors of any length
SpecScoreLen == InitScoreLen /\ [][Score]_vars

\* every kind of cell the parser and the header strip can produce
HarnessCells ==
    {NaNCell, SeriesCell, Str("abc"), Str("1"), Str("7"), Str("19.7"), Str("-0.5"),
     Str("500"), Str("inf"), Str("NAN")}

\* rows with one column holding any cell and the others absent or alike
HarnessRows ==
    {Row(0, << >>)}
    \cup {Row(0, [c \in {feature_names[i]} |-> cell])
          : i \in 1..Len(feature_names), cell \in HarnessCells}
    \cup {Row(0, [c \in Range(feature_names) |->
                    IF c = feature_names[i] THEN cell ELSE other])
          : i \in 1..Len(feature_names), cell \in HarnessCells,
            other \in {NaNCell, Str("1")}}

\* the row mapper and the record mapper applied to one row
MapRow ==
    /\ rm.features = << >>
    /\ rm' = [rm EXCEPT !.features = _row_to_features(rm.row),
                        !.fields = _csv_to_student_fields(rm.row)]
    /\ UNCHANGED <<users, students, notifications, clf, imp, prd, seen, nreq, sc, am, boot>>

InitRowMap ==
    /\ InitSystem
    /\ sc = ScIdle
    /\ rm \in [row : HarnessRows, features : {<< >>}, fields : {NoFields}]
    /\ am = AmIdle

SpecRowMap == InitRowMap /\ [][MapRow]_vars

----------------------------------------------------------------------------
(* Start-up: run.py, and the construction of the predictor when app is imported *)

\* a loader that goes on without the artifact it does not find
load_model_lenient(model_pkl, scaler_pkl) ==
    [exc |-> "none",
     model |-> IF model_pkl THEN "loaded" ELSE "none",
     scaler |-> IF scaler_pkl THEN "loaded" ELSE "none"]

\* DropoutPredictor.__init__ and load_model: the two joblib.load calls in order
load_model(model_pkl, scaler_pkl) ==
    IF ~model_pkl THEN [exc |-> "RuntimeError", model |-> "none", scaler |-> "none"]
    ELSE IF ~scaler_pkl THEN [exc |-> "RuntimeError", model |-> "loaded", scaler |-> "none"]
    ELSE [exc |-> "none", model |-> "loaded", scaler |-> "loaded"]

\* predict on a predictor object: the guard of its first lines, then the scoring
predict_with(model, scaler, features, dropout_prob) ==
    IF model = "none" \/ scaler = "none"
    THEN [exc |-> "ValueError", risk_score |-> 0, risk_category |-> "none"]
    ELSE predict(features, dropout_prob)

\* init_db.py create_admin_user: User(..., password=...) names no attribute of
\* User, and the declarative constructor raises TypeError
create_admin_user(usr) ==
    IF \E u \in usr : u.username = "admin"
    THEN [exc |-> "none", users |-> usr, created |-> << >>]
    ELSE [exc |-> "TypeError", users |-> usr, created |-> << >>]

\* init_db.py create_counselor
create_counselor(usr) ==
    IF \E u \in usr : u.username = "counselor"
    THEN [exc |-> "none", users |-> usr, created |-> << >>]
    ELSE [exc |-> "none",
          users |-> usr \cup {[id |-> Max({u.id : u \in usr}) + 1,
                               username |-> "counselor", role |-> "counselor"]},
          created |-> <<"counselor">>]

\* init_db.py main: create_all, then the two accounts in order
init_db_main(usr) ==
    LET a == create_admin_user(usr)
    IN  IF a.exc # "none" THEN a
        ELSE LET c == create_counselor(a.users)
             IN  [exc |-> c.exc, users |-> c.users, created |-> a.created \o c.created]

\* run.py setup_database: without a database file init_db is imported, which
\* imports app and so constructs the predictor, and init_db.main is called;
\* any exception stops the start
BootSetupDatabase ==
    /\ boot.pc = "setup_db"
    /\ IF boot.db_file
       THEN /\ boot' = [boot EXCEPT !.pc = "setup_model"]
            /\ UNCHANGED users
       ELSE IF load_model(boot.model_pkl, boot.scaler_pkl).exc # "none"
       THEN /\ boot' = [boot EXCEPT !.pc = "stopped", !.init_db = "RuntimeError"]
            /\ UNCHANGED users
       ELSE \E r \in {init_db_main(users)} :
               /\ users' = r.users
               /\ boot' = IF r.exc = "none"
                          THEN [boot EXCEPT !.pc = "setup_model", !.db_file = TRUE,
                                            !.init_db = "ok"]
                          ELSE [boot EXCEPT !.pc = "stopped", !.db_file = TRUE,
                                            !.init_db = r.exc]
    /\ UNCHANGED <<students, notifications, clf, imp, prd, seen, nreq, sc, rm, am>>

\* python init_db.py: the import of app, then main
BootInitDb ==
    /\ boot.pc = "init_db"
    /\ IF load_model(boot.model_pkl, boot.scaler_pkl).exc # "none"
       THEN /\ boot' = [boot EXCEPT !.pc = "stopped", !.init_db = "RuntimeError"]
            /\ UNCHANGED users
       ELSE \E r \in {init_db_main(users)} :
               /\ users' = r.users
               /\ boot' = [boot EXCEPT !.pc = "exited", !.db_file = TRUE,
                              !.init_db = IF r.exc = "none" THEN "ok" ELSE r.exc]
    /\ UNCHANGED <<students, notifications, clf, imp, prd, seen, nreq, sc, rm, am>>

\* run.py setup_ml_model: trains when models/dropout_model.pkl is not there;
\* a failed training is only printed
BootSetupMlModel ==
    /\ boot.pc = "setup_model"
    /\ IF boot.model_pkl
       THEN boot' = [boot EXCEPT !.pc = "run"]
       ELSE \E train \in {"ok", "raises"} :
               boot' = IF train = "ok"
                       THEN [boot EXCEPT !.pc = "run", !.model_pkl = TRUE, !.scaler_pkl = TRUE]
                       ELSE [boot EXCEPT !.pc = "run"]
    /\ UNCHANGED <<users, students, notifications, clf, imp, prd, seen, nreq, sc, rm, am>>

\* run.py run_application, or python app.py: importing app constructs the predictor
BootRunApplication ==
    /\ boot.pc = "run"
    /\ \E loaded \in {load_model(boot.model_pkl, boot.scaler_pkl)} :
          boot' = IF loaded.exc # "none"
                  THEN [boot EXCEPT !.pc = "stopped"]
                  ELSE [boot EXCEPT !.pc = "serving", !.model = loaded.model,
                                    !.scaler = loaded.scaler]
    /\ UNCHANGED <<users, students, notifications, clf, imp, prd, seen, nreq, sc, rm, am>>

\* a prediction request answered by the started application
BootPredict ==
    /\ boot.pc = "serving"
    /\ ~sc.called
    /\ \E r \in {predict_with(boot.model, boot.scaler, sc.features, sc.dropout_prob)} :
          sc' = [sc EXCEPT !.called = TRUE, !.exc = r.exc,
                           !.risk_score = r.risk_score,
                           !.risk_category = r.risk_category]
    /\ UNCHANGED <<users, students, notifications, clf, imp, prd, seen, nreq, rm, am, boot>>

\* the probabilities the classifier is let to return after a start-up
BootProbs == {MediumThreshold - 1, MediumThreshold, HighThreshold - 1, HighThreshold}

\* the user tables of a database that exists: any of the accounts admin,
\* student1 and counselor
DbUsers ==
    SUBSET {[id |-> 1, username |-> "admin", role |-> "admin"],
            [id |-> 2, username |-> "student1", role |-> "student"],
            [id |-> 3, username |-> "counselor", role |-> "counselor"]}

\* the first step of each way to start
EntryPc(entry) ==
    CASE entry = "run.py" -> "setup_db"
      [] entry = "init_db.py" -> "init_db"
      [] OTHER -> "run"

\* before the start: through run.py, python app.py or python init_db.py, with
\* any artifacts on disk; without a database file there is no user table
InitBoot ==
    /\ \E entry \in {"run.py", "app.py", "init_db.py"}, d, m, sp \in BOOLEAN :
       \E usr \in IF d THEN DbUsers ELSE {{}} :
          /\ users = usr
          /\ boot = [pc |-> EntryPc(entry), db_file |-> d, model_pkl |-> m,
                     scaler_pkl |-> sp, model |-> "none", scaler |-> "none",
                     entry |-> entry, had_db |-> d, had_model |-> m, had_users |-> usr,
                     init_db |-> "none"]
    /\ students = {}
    /\ notifications = << >>
    /\ clf = << >>
    /\ imp = [p \in ImportProcs |-> ImpIdle]
    /\ prd = PrdIdle
    /\ seen = SeenIdle
    /\ nreq = 0
    /\ sc \in {[ScIdle EXCEPT !.features = f, !.dropout_prob = p]
                : f \in {quick_features(<< >>), api_features(<< >>)}, p \in BootProbs}
    /\ rm = RmIdle
    /\ am = AmIdle

NextBoot ==
    \/ BootSetupDatabase
    \/ BootInitDb
    \/ BootSetupMlModel
    \/ BootRunApplication
    \/ BootPredict

SpecBoot == InitBoot /\ [][NextBoot]_vars

\* the keys of a request body: none, one, all but one, or all of the feature keys
ApiKeySets ==
    {{}, Range(api_keys)}
    \cup {{api_keys[i]} : i \in 1..Len(api_keys)}
    \cup {Range(api_keys) \ {api_keys[i]} : i \in 1..Len(api_keys)}

\* the keys of the homepage form
QuickKeys == {quick_slots[i].key : i \in 1..Len(quick_slots)} \ {""}

\* the numbers a request body gives: 7 and 19.7
HarnessValues == {Fin(70), Fin(197)}

HarnessBodies ==
    {[path |-> "api", data |-> [k \in keys |-> v]] : keys \in ApiKeySets, v \in HarnessValues}
    \cup {[path |-> "quick", data |-> [k \in keys |-> v]]
           : keys \in SUBSET QuickKeys, v \in HarnessValues}

\* the request mapper of /api/predict or /api/predict/quick applied to one body
MapRequest ==
    /\ ~am.called
    /\ am' = [am EXCEPT !.called = TRUE,
                        !.features = IF am.path = "api" THEN api_features(am.data)
                                     ELSE quick_features(am.data)]
    /\ UNCHANGED <<users, students, notifications, clf, imp, prd, seen, nreq, sc, rm, boot>>

InitApiMap ==
    /\ InitSystem
    /\ sc = ScIdle
    /\ rm = RmIdle
    /\ am \in {[AmIdle EXCEPT !.path = b.path, !.data = b.data] : b \in HarnessBodies}

SpecApiMap == InitApiMap /\ [][MapRequest]_vars

----------------------------------------------------------------------------
(* Specifications of the system *)

\* requests served one at a time
Next ==
    \/ ImportRefused(1, AllIdle)
    \/ ImportUnparsable(1, AllIdle)
    \/ ImportStart(1, AllIdle, Files)
    \/ ImportDelete(1)
    \/ ImportVerify(1)
    \/ ImportRows(1, ProbLevels)
    \/ ImportReturn(1)
    \/ PredictStart(AllIdle, ProbLevels)
    \/ PredictAlert
    \/ PredictReturn
    \/ GetAnalytics(AllIdle)
    \/ AnalyticsReturn

Spec == Init /\ [][Next]_vars


\* requests served concurrently, with one import at a time
NextConc ==
    \/ ImportStart(1, TRUE, ConcFiles)
    \/ ImportDelete(1)
    \/ ImportVerify(1)
    \/ ImportRows(1, ProbLevels)
    \/ ImportReturn(1)
    \/ PredictStart(TRUE, ProbLevels)
    \/ PredictAlert
    \/ PredictReturn
    \/ GetAnalytics(TRUE)
    \/ AnalyticsReturn

SpecConc == Init /\ [][NextConc]_vars

\* two imports served concurrently
NextRace ==
    \E p \in ImportProcs :
        \/ ImportStart(p, TRUE, ConcFiles)
        \/ ImportDelete(p)
        \/ ImportVerify(p)
        \/ ImportRows(p, ProbLevels)
        \/ ImportReturn(p)

SpecRace == Init /\ [][NextRace]_vars

\* imports of complete files lacking one header, served one at a time
NextFull ==
    \/ ImportStart(1, AllIdle, FullFiles)
    \/ ImportDelete(1)
    \/ ImportVerify(1)
    \/ ImportRows(1, ProbLevels)
    \/ ImportReturn(1)

SpecFull == Init /\ [][NextFull]_vars

\* imports of files around the length of the preview, served one at a time
NextPreview ==
    \/ ImportStart(1, AllIdle, PreviewFiles)
    \/ ImportDelete(1)
    \/ ImportVerify(1)
    \/ ImportRows(1, ProbLevels)
    \/ ImportReturn(1)

SpecPreview == Init /\ [][NextPreview]_vars

\* imports and predictions served concurrently, scored on both sides of both thresholds
NextLevels ==
    \/ ImportStart(1, TRUE, ConcFiles)
    \/ ImportDelete(1)
    \/ ImportVerify(1)
    \/ ImportRows(1, AllLevels)
    \/ ImportReturn(1)
    \/ PredictStart(TRUE, AllLevels)
    \/ PredictAlert
    \/ PredictReturn

SpecLevels == Init /\ [][NextLevels]_vars


----------------------------------------------------------------------------
(* The claims *)

\* C1: for every probability the classifier returns, predict gives High iff
\* p >= 0.70, Medium iff 0.40 <= p < 0.70 and Low iff p < 0.40; exactly one
\* of the three.
C1_Thresholds ==
    sc.risk_category # "none" =>
        /\ sc.risk_category \in {"High", "Medium", "Low"}
        /\ (sc.risk_category = "High") <=> (sc.dropout_prob >= 7000)
        /\ (sc.risk_category = "Medium") <=>
               (sc.dropout_prob >= 4000 /\ sc.dropout_prob < 7000)
        /\ (sc.risk_category = "Low") <=> (sc.dropout_prob < 4000)

\* a probability of exactly 0.70 has been scored High
C1_Witness == sc.dropout_prob = 7000 /\ sc.risk_category = "High"

C3_ReplaceIsAtomic ==
    /\ (seen.pc = "done" /\ seen.replacing) => seen.total_students > 0
    /\ \A p \in ImportProcs :
          (imp[p].pc = "done" /\ imp[p].outcome # "success" /\ imp[p].prior # {})
              => students # {}

\* C4: a successful import with k counselors and h rows scored High creates
\* h*k notifications.
C4_ImportAlerts ==
    (imp[1].pc = "done" /\ imp[1].outcome = "success") =>
        Len(notifications) - imp[1].notified =
            Cardinality({s \in students : s.risk_category = "High"})
                * Cardinality({u \in users : u.role = "counselor"})

C6_RowMapTotal ==
    rm.features # << >> =>
        /\ Len(rm.features) = Len(feature_names)
        /\ \A i \in 1..Len(rm.features) : IsFinite(rm.features[i])

\* C7: after any import attempt the collection is never a mix of prior and
\* new records, nor a strict non-empty subset of the new batch.
C7_NoPartialState ==
    imp[1].pc = "done" =>
        LET mine == {s \in students : s.created_at = imp[1].req}
        IN  /\ ~(mine # {} /\ students \ mine # {})
            /\ mine # {} => Cardinality(mine) = Len(imp[1].file.rows)

\* an import of two rows over a non-empty collection has failed at its commit
C7_Witness ==
    /\ imp[1].pc = "done"
    /\ imp[1].outcome \in {"commit_rejected", "integrity_error"}
    /\ imp[1].prior # {}
    /\ Len(imp[1].file.rows) = 2

\* C8: if the deletion fails or leaves records behind, import_csv reports
\* failure and inserts no row of the new batch.
C8_IncompleteDeletionFails ==
    \A p \in ImportProcs :
        (imp[p].pc = "done" /\ (imp[p].outcome = "delete_failed" \/ imp[p].remaining_count > 0))
            => /\ imp[p].outcome # "success"
               /\ {s \in students : s.created_at = imp[p].req} = {}

\* C9: when the store rejects the commit of the new records, import_csv fails
\* and its response tells that the prior collection is gone, with the counts
\* of what survived.
C9_RejectionReported ==
    (imp[1].pc = "done" /\ imp[1].outcome = "commit_rejected" /\ imp[1].prior # {}) =>
        /\ imp[1].response.status = 500
        /\ imp[1].response.body.success = FALSE
        /\ {"cleared_count", "total_in_db"} \subseteq DOMAIN imp[1].response.body

\* C10: once the file is parsed, no cell value and no combination of rows
\* makes import_csv fail; only parse errors and storage failures do.
C10_NoRowLevelFailure ==
    imp[1].pc = "done" => imp[1].outcome \notin {"predict_raised", "integrity_error"}

C13_SynthesizedIdsDistinct ==
    (imp[1].pc = "done"
     /\ imp[1].outcome \in {"success", "integrity_error", "commit_rejected"}) =>
        LET rows == df_rows(imp[1].file)
            supplied(i) == /\ "student_id" \in DOMAIN rows[i].cells
                           /\ rows[i].cells["student_id"] # NaNCell
            given(i) == _csv_to_student_fields(rows[i]).student_id
        IN  /\ \A i \in 1..Len(rows) :
                  (~supplied(i) /\ i <= 9) => given(i) = "CSV0000" \o ToString(i)
            /\ \A i, j \in 1..Len(rows) :
                  (~supplied(i) /\ ~supplied(j) /\ i # j) => given(i) # given(j)

\* C14: in the row mapper a cell that is empty, a textual NaN marker or a
\* numeric value outside the field's valid range (a negative age, a binary
\* flag of 7, a grade of 500) is replaced by the field's schema default, in
\* the feature vector and in the stored attribute.
C14_AbsentLikeDefaulted ==
    rm.features # << >> =>
        \A i \in 1..Len(feature_names) :
            LET h == feature_names[i]
                absent_like(cell) ==
                    \/ cell = NaNCell
                    \/ cell = Str("NAN")
                    \/ h = "Age at enrollment" /\ cell = Str("-0.5")
                    \/ h \in {"Debtor", "Displaced", "Gender", "International"} /\ cell = Str("7")
                    \/ h \in {"Curricular units 1st sem (grade)",
                              "Curricular units 2nd sem (grade)"} /\ cell = Str("500")
            IN  (h \in DOMAIN rm.row.cells /\ absent_like(rm.row.cells[h])) =>
                    /\ rm.features[i] = FromInt(defaults(h))
                    /\ rm.fields.attrs[i] = FromInt(defaults(h))

\* C20: a parseable value of an integer-kind field is truncated toward zero
\* before it enters the feature vector, so the value scored equals the integer
\* stored for that field on the student record.
C20_IntegerFieldsTruncated ==
    rm.features # << >> =>
        \A i \in 1..Len(feature_names) :
            LET h == feature_names[i]
            IN  (/\ student_columns[i].conv = "int"
                 /\ h \in DOMAIN rm.row.cells
                 /\ rm.row.cells[h] \in {Str("1"), Str("7"), Str("19.7"), Str("-0.5"), Str("500")}) =>
                    /\ rm.features[i].v % 10 = 0
                    /\ rm.features[i] = rm.fields.attrs[i]

\* C17: predict called with a vector whose length differs from the schema
\* length fails with an invalid-input error (ValueError) and returns no score
\* or category; a vector of the schema length is scored.
C17_WrongLengthRejected ==
    sc.called =>
        IF Len(sc.features) # Len(feature_names)
        THEN sc.exc = "ValueError" /\ sc.risk_category = "none" /\ sc.risk_score = 0
        ELSE sc.exc = "none" /\ sc.risk_category \in {"High", "Medium", "Low"}

\* predict has been called with a 33-entry vector and has raised
C17_Witness ==
    /\ sc.called
    /\ Len(sc.features) = Len(feature_names) - 1
    /\ sc.exc = "ValueError"

\* C15: feature order is the same everywhere: position i of feature_names, of
\* the defaults table of _row_to_features, of the /api/predict feature list
\* (through the header-to-key table of _csv_to_student_fields), of the
\* quick-predict vector and of the training dataset's non-Target columns all
\* denote the same feature.
C15_FeatureOrder ==
    am.called =>
        /\ Len(defaults_keys) = Len(feature_names)
        /\ Len(feature_columns) = Len(feature_names)
        /\ Len(student_columns) = Len(feature_names)
        /\ Len(am.features) = Len(feature_names)
        /\ \A i \in 1..Len(feature_names) :
              /\ defaults_keys[i] = feature_names[i]
              /\ feature_columns[i] = feature_names[i]
              /\ student_columns[i].header = feature_names[i]
              /\ LET key == student_columns[i].key
                 IN  IF key \in DOMAIN am.data
                     THEN am.features[i] \in {am.data[key], Fin(trunc(am.data[key].v))}
                     ELSE am.features[i] \notin HarnessValues

\* each path has mapped a body that gives only the tuition flag
C15_Witness ==
    /\ am.called
    /\ DOMAIN am.data = {"tuition_fees_up_to_date"}
    /\ am.features[15] = Fin(70)
    /\ am.features[14] = Fin(0)

\* C19: in /api/predict each feature key is defaulted individually: an absent
\* key takes its own schema default (1 for tuition_fees_up_to_date, 18 for
\* age_at_enrollment, 0 otherwise), a present key keeps the supplied value,
\* and the defaults are those the CSV import path uses for a missing column.
C19_ApiKeysDefaulted ==
    (am.called /\ am.path = "api") =>
        \A i \in 1..Len(feature_names) :
            LET key == student_columns[i].key
            IN  IF key \in DOMAIN am.data
                THEN am.features[i] = am.data[key]
                ELSE /\ am.features[i] =
                            FromInt(CASE key = "tuition_fees_up_to_date" -> 1
                                      [] key = "age_at_enrollment" -> 18
                                      [] OTHER -> 0)
                     /\ am.features[i] = _row_to_features(Row(0, << >>))[i]

\* a body that gives every key but tuition_fees_up_to_date has been mapped
C19_Witness ==
    /\ am.called /\ am.path = "api"
    /\ DOMAIN am.data = Range(api_keys) \ {"tuition_fees_up_to_date"}
    /\ am.features[15] = Fin(10)
    /\ am.features[18] = Fin(197)

\* C16 as stated: the feature schema has exactly 33 fields, and every vector
\* handed to the scorer by the CSV import path and by the single-record API
\* path has the schema's length, 33.
C16_SchemaLength33 ==
    clf # << >> =>
        /\ Len(feature_names) = 33
        /\ \A v \in DOMAIN clf : Len(v) = 33

\* C16 as amended: the feature schema has exactly 34 fields, and every vector
\* handed to the scorer by the CSV import path and by the single-record API
\* path has the schema's length, 34.
C16_SchemaLength34 ==
    /\ Len(feature_names) = 34
    /\ \A v \in DOMAIN clf : Len(v) = Len(feature_names)
    /\ imp[1].pc \in {"verified", "done"} =>
           \A r \in 1..Len(imp[1].file.rows) :
               Len(row_features(df_rows(imp[1].file))[r]) = Len(feature_names)

\* the scorer has been handed vectors by an import and by a single-record request
C16_Witness ==
    /\ prd.pc = "done" /\ prd.outcome = "success"
    /\ students # {}
    /\ Cardinality(DOMAIN clf) >= 2

C21_ImportSummary ==
    (imp[1].pc = "done" /\ imp[1].outcome = "success") =>
        LET body == imp[1].response.body
            rows == df_rows(imp[1].file)
            N == Len(rows)
            lacking == {feature_names[i] : i \in 1..Len(feature_names)}
                          \ {strip(h) : h \in imp[1].file.columns}
            shown == IF N <= 50 THEN N ELSE 50
        IN  /\ body.summary.created = N
            /\ body.summary.cleared_count = imp[1].cleared
            /\ body.summary.total_in_db = N
            /\ IF lacking = {} THEN "warnings" \notin DOMAIN body
               ELSE LET m == body.warnings.missing_columns
                    IN  {m[i] : i \in 1..Len(m)} = lacking /\ Len(m) = Cardinality(lacking)
            /\ Len(body.results) = shown
            /\ \A i \in 1..shown :
                   \E s \in students :
                       /\ s.id = i
                       /\ s.student_id = _csv_to_student_fields(rows[i]).student_id
                       /\ body.results[i] =
                              [student_id |-> s.student_id, name |-> s.name,
                               risk_score |-> s.dropout_risk_score,
                               risk_category |-> s.risk_category]

\* an import of 51 rows over a non-empty collection has answered with a preview
\* of 50 rows and the headers the file lacks
C21_Witness ==
    /\ imp[1].pc = "done" /\ imp[1].outcome = "success"
    /\ Len(imp[1].file.rows) = 51
    /\ imp[1].cleared > 0
    /\ Len(imp[1].response.body.results) = 50
    /\ "warnings" \in DOMAIN imp[1].response.body


\* C22: alerting is not idempotent: two /api/predict requests in a row that
\* score the same stored student High, with k counselors, leave 2k
\* notifications, a fresh set of k from each request.
C22_AlertsRepeat ==
    (/\ prd.pc = "done" /\ prd.outcome = "success"
     /\ prd.risk_category = "High" /\ prd.matched
     /\ prd.prev.req = nreq - 1 /\ prd.prev.outcome = "success"
     /\ prd.prev.risk_category = "High" /\ prd.prev.matched
     /\ prd.prev.pk = prd.pk) =>
        LET counselors == {u.id : u \in {x \in users : x.role = "counselor"}}
            k == Cardinality(counselors)
            both == (prd.prev.before + 1)..Len(notifications)
        IN  /\ Len(notifications) = prd.prev.before + 2 * k
            /\ prd.before = prd.prev.before + k
            /\ \A i \in both : notifications[i].student_id = prd.pk
            /\ \A i, j \in both : i # j => notifications[i].id # notifications[j].id
            /\ \A c \in counselors :
                   /\ Cardinality({i \in (prd.prev.before + 1)..prd.before :
                                      notifications[i].counselor_id = c}) = 1
                   /\ Cardinality({i \in (prd.before + 1)..Len(notifications) :
                                      notifications[i].counselor_id = c}) = 1

\* a student has been scored High twice in a row with two counselors
C22_Witness ==
    /\ prd.pc = "done" /\ prd.outcome = "success"
    /\ prd.risk_category = "High" /\ prd.matched
    /\ prd.prev.req = nreq - 1 /\ prd.prev.outcome = "success"
    /\ prd.prev.risk_category = "High" /\ prd.prev.matched
    /\ prd.prev.pk = prd.pk
    /\ Cardinality({u \in users : u.role = "counselor"}) = 2
    /\ Len(notifications) = 4


\* C23: the score stored on a student is derived, never patched in place:
\* after any imports and single-record predictions, each student's stored
\* probability and category are the score of the vector of that student's
\* own stored attributes, read in schema order.
C23_StoredScoreDerived ==
    \A s \in students :
        s.attrs \in DOMAIN clf =>
            LET r == predict(s.attrs, clf[s.attrs])
            IN  /\ r.exc = "none"
                /\ s.dropout_risk_score = r.risk_score
                /\ s.risk_category = r.risk_category


\* C24: an import request rejected before the replace step (role neither
\* counselor nor admin, no file part, a name not ending in .csv, or a file
\* that cannot be parsed) leaves the students, the notifications and the
\* user accounts as they were.
C24_RejectedImportFrame ==
    [][\A p \in ImportProcs :
          (imp[p].pc = "idle" /\ imp'[p].pc = "done"
              /\ imp'[p].outcome \in {"refused", "parse_error"})
          => /\ students' = students
             /\ notifications' = notifications
             /\ users' = users]_vars

\* an unparsable file has been rejected while students and notifications were stored
C24_Witness ==
    /\ imp[1].pc = "done" /\ imp[1].outcome = "parse_error"
    /\ students # {}
    /\ notifications # << >>


\* C25: import_csv clears only the student table: no step of an import
\* request, successful or failed, changes the set of user accounts or a
\* field of an account.
C25_ImportKeepsUsers ==
    [][imp' # imp => users' = users]_vars

\* an import has replaced a non-empty collection while two counselors,
\* an admin and a student account were stored
C25_Witness ==
    /\ imp[1].pc = "done" /\ imp[1].outcome = "success"
    /\ imp[1].cleared > 0
    /\ Cardinality(users) = 4


\* C26: after any single-record predictions and imports, every stored
\* notification references a student record that exists and is the student
\* it was raised for: none dangles and none points at another student.
C26_NotificationsReferToStudents ==
    \A i \in 1..Len(notifications) :
        \E s \in students :
            /\ s.id = notifications[i].student_id
            /\ s.student_id = notifications[i].student_identifier
            /\ s.name = notifications[i].student_name


C28_UpdateAndAlertsTogether ==
    (/\ prd.pc \in {"alert", "done"}
     /\ prd.matched /\ prd.risk_category = "High"
     /\ prd.outcome \notin {"commit_rejected", "predict_raised"}) =>
        \A c \in {u.id : u \in {x \in users : x.role = "counselor"}} :
            \E i \in (prd.before + 1)..Len(notifications) :
                /\ notifications[i].counselor_id = c
                /\ notifications[i].student_id = prd.pk


\* C29: run.main() handles the complete setup: started with no database file
\* and no trained model artifact it initializes the database, trains the
\* model and starts the application, so the run never ends stopped; a missing
\* model artifact never makes the database setup step fail.
C29_RunMainCompletesSetup ==
    (boot.entry = "run.py" /\ ~boot.had_db /\ ~boot.had_model) =>
        /\ boot.pc # "stopped"
        /\ boot.init_db # "RuntimeError"

\* C30: init_db.main() completes without error and leaves a user admin with
\* role admin and a user counselor with role counselor, creating each of the
\* two only if it does not exist and changing no account that exists.
C30_InitDbCreatesUsers ==
    (boot.entry = "init_db.py" /\ boot.init_db \notin {"none", "RuntimeError"}) =>
        /\ boot.init_db = "ok"
        /\ \E u \in users : u.username = "admin" /\ u.role = "admin"
        /\ \E u \in users : u.username = "counselor" /\ u.role = "counselor"
        /\ boot.had_users \subseteq users
        /\ \A u \in users \ boot.had_users :
               /\ u.username \in {"admin", "counselor"}
               /\ \A v \in boot.had_users : v.username # u.username

====
